---- MODULE Spec2Model ----
(***************************************************************************)
(* State-machine model of the VoiceManager of src/src/voice.ts: speech     *)
(* capture (recognition engine wrapper) and speech output (remote          *)
(* synthesis played through one reusable audio element, local synthesis    *)
(* through the browser engine), together with the platform objects the     *)
(* class drives: the recognition engine, the speechSynthesis queue, the    *)
(* audio element, the network and the timer queue.                         *)
(*                                                                         *)
(* Every handler of the class is an operator from a state record to a      *)
(* state record, so that a handler calling another handler is the          *)
(* composition of the two; an action applies one handler to the current    *)
(* state and commits the result.                                           *)
(***************************************************************************)
EXTENDS Integers, Sequences, FiniteSets, TLC

\* ------------------------------------------------------------------ bounds
\* number of fragments an input text of the sanitizer is made of
MaxFragments == 4
\* number of speak() invocations in one run of the output controller alone
MaxCalls == 2
\* number of speak() invocations in one run with the capture controller
MaxTurnCalls == 1
\* number of unlockAudio() invocations (mic taps) in one run
MaxUnlocks == 1
\* pending re-listen / restart timers beyond which the user does not tap again
MaxTimers == 1
\* mic-button clicks and spacebar presses of a run of the application
MaxTaps == 2
\* sendMessage() calls of a run of the agent
MaxSends == 11

Calls == 1..MaxCalls

\* --------------------------------------------------------- text sanitizer
\* A text is a sequence of characters; a pictograph is one element named by
\* its code point, and so is the backtick (U+0060).
EmojiChars == {"U+1F389", "U+2600"}
MarkupChars == {"*", "#", "_", "~", "U+0060"}
SpaceChars == {" ", "\t", "\n"}

HasPrefix(t, p) == Len(t) >= Len(p) /\ SubSeq(t, 1, Len(p)) = p

\* length of the "https?://" head of t, 0 when t does not start with one
UrlHead(t) ==
    IF HasPrefix(t, <<"h", "t", "t", "p", "s", ":", "/", "/">>) THEN 8
    ELSE IF HasPrefix(t, <<"h", "t", "t", "p", ":", "/", "/">>) THEN 7
    ELSE 0

\* length of the longest prefix of t without whitespace (\S+ is greedy)
RECURSIVE NonSpaceRun(_)
NonSpaceRun(t) ==
    IF t = <<>> \/ Head(t) \in SpaceChars THEN 0 ELSE 1 + NonSpaceRun(Tail(t))

\* removal of every match of the URL pattern: http, optional s, ://, non-space run
RECURSIVE StripUrls(_)
StripUrls(t) ==
    IF t = <<>> THEN <<>>
    ELSE LET h == UrlHead(t)
             r == IF h = 0 THEN 0 ELSE NonSpaceRun(SubSeq(t, h + 1, Len(t)))
         IN  IF h > 0 /\ r > 0
             THEN StripUrls(SubSeq(t, h + r + 1, Len(t)))
             ELSE <<Head(t)>> \o StripUrls(Tail(t))

\* every run of whitespace becomes one space
RECURSIVE CollapseSpaces(_)
CollapseSpaces(t) ==
    IF t = <<>> THEN <<>>
    ELSE IF Head(t) \in SpaceChars
         THEN IF Len(t) > 1 /\ t[2] \in SpaceChars
              THEN CollapseSpaces(Tail(t))
              ELSE <<" ">> \o CollapseSpaces(Tail(t))
         ELSE <<Head(t)>> \o CollapseSpaces(Tail(t))

\* String.prototype.trim
RECURSIVE Trim(_)
Trim(t) ==
    IF t = <<>> THEN <<>>
    ELSE IF Head(t) \in SpaceChars THEN Trim(Tail(t))
    ELSE IF t[Len(t)] \in SpaceChars THEN Trim(SubSeq(t, 1, Len(t) - 1))
    ELSE t

cleanTextForSpeech(text) ==
    LET noEmoji  == SelectSeq(text, LAMBDA ch : ch \notin EmojiChars)
        noUrls   == StripUrls(noEmoji)
        noMarkup == SelectSeq(noUrls, LAMBDA ch : ch \notin MarkupChars)
    IN  Trim(CollapseSpaces(noMarkup))

\* the input texts of the sanitizer taken alone: the concatenations of at most
\* MaxFragments pieces of a link, markup, whitespace and a pictograph, and the
\* text of the link scenario
Fragments ==
    { <<"h", "t", "t", "p">>, <<"s">>, <<":", "/", "/">>, <<"x">>,
      <<"*">>, <<" ">>, <<"U+1F389">> }

RECURSIVE Flatten(_)
Flatten(fs) == IF fs = <<>> THEN <<>> ELSE Head(fs) \o Flatten(Tail(fs))

ScenarioText ==
    << "U+1F389", " ", "v", "i", "s", "i", "t", " ",
       "h", "t", "t", "p", "s", ":", "/", "/", "x", ".", "c", "o", "m", " ",
       "n", "o", "w", "!", "!" >>

SanitizerInputs ==
    { Flatten(fs) : fs \in UNION { [1..n -> Fragments] : n \in 0..MaxFragments } }
        \cup { ScenarioText }

\* the reply texts handed to speak() in the model
RawTexts == { <<" ", "o", "k", "#">>, <<"*", " ", "U+1F389">> }

\* the platforms of the model: a desktop browser, an iOS browser and a
\* browser whose voice catalog is empty, each with and without a recognition
\* engine
OneVoice == << [name |-> "Samantha", lang |-> "en-US", localService |-> TRUE] >>

\* the voices a catalog of the model is made of
VoicePool ==
    { [name |-> "Samantha", lang |-> "en-US", localService |-> TRUE],
      [name |-> "Fred", lang |-> "en-US", localService |-> TRUE],
      [name |-> "Google US English", lang |-> "en-US", localService |-> FALSE],
      [name |-> "Anna", lang |-> "de-DE", localService |-> TRUE],
      [name |-> "Amelie (Enhanced)", lang |-> "fr-FR", localService |-> TRUE] }

\* catalogs hold at most this many voices
MaxVoices == 3

\* the catalogs: sequences of distinct voices of the pool
Catalogs ==
    { q \in UNION { [1..n -> VoicePool] : n \in 0..MaxVoices } :
        \A i, j \in DOMAIN q : i # j => q[i] # q[j] }

\* the stored preferences: none, the name of a voice of the pool, and a name
\* no catalog holds
Preferences == {"", "Anna", "Zoe"}

\* name.includes(part), on the names of the pool
Includes(name, part) ==
    \/ name = part
    \/ name = "Google US English" /\ part = "Google"
    \/ name = "Amelie (Enhanced)" /\ part = "Enhanced"

\* lang.startsWith('en'), on the language tags of the pool
StartsWithEn(lang) == lang \in {"en-US", "en-GB"}

\* the two lists of names selectBrowserVoice looks for
IosNames == {"Samantha", "Karen", "Daniel"}
QualityNames == {"Google", "Natural", "Enhanced", "Premium", "Microsoft Zira",
                 "Microsoft David"}

\* the voice selection before any catalog was looked at
NoPick == [catalog |-> <<>>, preferred |-> "", ios |-> FALSE, done |-> FALSE,
           result |-> "null"]
Platforms ==
    { [isIOS |-> p[1], voices |-> p[2], recognition |-> r] :
        p \in { <<FALSE, OneVoice>>, <<TRUE, OneVoice>>, <<FALSE, <<>> >> },
        r \in {"idle", "null"} }

\* the length beyond which trimHistory cuts the conversation history, and the
\* recent messages it keeps after the system message
HistoryLimit == 20
RecentKept == 19

\* speeds of the remote voice, in hundredths: the default of the openaiSpeed
\* field and of the speed parameter, and the two ends of the accepted range
DefaultSpeed == 100
MinSpeed == 25
MaxSpeed == 400

\* the speeds the application configures in the model
Speeds == {10, MinSpeed, MaxSpeed, 500}

\* the notifications of one conversation turn, in the order in which the
\* application expects them after a transcript was delivered
TurnOrder ==
    << "onListeningEnd", "onSpeakingStart", "onSpeakingEnd", "onListeningStart" >>

TurnCallbacks == { TurnOrder[i] : i \in DOMAIN TurnOrder }

NoTurn == [open |-> FALSE, log |-> <<>>]

\* the error codes the recognition engine reports in the model
RecognitionErrors == {"aborted", "no-speech"}

\* the controller used without the application: its callbacks only observed
NoApp == [attached |-> FALSE, agent |-> FALSE, state |-> "idle",
          thinking |-> 0, errorTimer |-> FALSE]

\* ------------------------------------------------------------------ state
VARIABLES
    \* VoiceManager fields
    isListening, isSpeaking, continuousMode, isIOS, cachedVoices,
    ttsProvider, openaiApiKey, audioUnlocked, pendingAudioUrl,
    openaiSpeed,     \* in hundredths
    \* platform objects
    recognition,     \* "null" (no engine) | "idle" | "starting" | "active"
                     \* | "stopping" | "closing" (end event still to come)
    audioElement,    \* [src: 0 (silent clip) or a call, st: idle|loading|playing|paused]
    listeners,       \* calls whose 'ended'/'error' listeners are attached, in order
    synthQueue,      \* utterances held by speechSynthesis: [call, text, voice]
    synthSpeaking,   \* the head of synthQueue has begun being spoken
    utterEvents,     \* error events of cancelled utterances, not yet delivered
    engineVoices,    \* what speechSynthesis.getVoices() returns
    fetches,         \* call -> "none" | "inflight" | "done"
    blobUrls,        \* object URLs created and not revoked
    \* timer queue
    startTimers,     \* setTimeout(startSpeech) of speakWithBrowser, FIFO
    restartTimers,   \* 1000 ms timers of recognition.onend
    relistenTimers,  \* 500 ms timers of the speaking-ended handlers
    synthPaused,     \* speechSynthesis.paused
    stallTimers,     \* [interval, timeout]: the calls of the utterances whose
                     \* 250 ms paused-check and 14 s resume timers are live
    \* one entry per speak() invocation
    nCalls,          \* speak() invocations so far
    current,         \* the last invocation that passed the empty-text check
    promise,         \* call -> "none" | "pending" | "resolved" | "rejected"
    callText,        \* call -> sanitized text
    nUnlocks,        \* unlockAudio() invocations so far
    \* what the caller and the devices observe of one speak() invocation, the
    \* watched one; it is any of the invocations, fixed at the start of a run
    watched,
    path,            \* "none" | "empty" | "remote" | "locked" | "local"
    cancelled,       \* stopSpeaking() ran while its promise was pending
    onSpeakingStart, onSpeakingEnd, onError,   \* callbacks fired by its handlers
    requests,        \* synthesis requests issued for it
    requestSpeed,    \* the speed field of its last request, 0 before any
    requestKey,      \* the credential of its last request, "none" before any
    configuredSpeed, \* the speed last passed to enableOpenAITTS/setOpenAISpeed
    fallbacks,       \* local attempts made for it after a remote failure
    hardError,       \* the local engine reported a non-cancel error for it
    noVoice,         \* an utterance of it was built while no voice was available
    \* what the application's callbacks receive
    delivered,       \* [event, callbacks]: the capture event or call handled by
                     \* the last step ("none" for any other step) and the
                     \* callbacks the step invoked, in order
    turn,            \* [open, log]: the callbacks invoked since the transcript of
                     \* a conversation turn in continuous mode
    \* the application that owns the controller
    app,             \* [attached, agent, state, thinking, errorTimer]: whether
                     \* KuchiApp's handlers are the callbacks, whether its agent
                     \* is configured, its appState, the sendMessage() calls it
                     \* awaits, and whether a 4 s timer of handleError is pending
    \* the agent taken alone
    agent,           \* [conversationHistory, sends, last]: the roles of the stored
                     \* messages, the sendMessage() calls made, and how the
                     \* last one went ("none" before any)
    \* the voice selection taken alone
    voicePick,       \* [catalog, preferred, ios, done, result]: a voice catalog, a
                     \* stored preference, the platform, and the name of the
                     \* voice selectBrowserVoice returned ("null" for none)
    \* the sanitizer taken alone
    sanitizer        \* [input, passes, once, twice]: a text, how many times it
                     \* went through cleanTextForSpeech, and the results

vars == << isListening, isSpeaking, continuousMode, isIOS, cachedVoices,
           ttsProvider, openaiApiKey, audioUnlocked, pendingAudioUrl,
           recognition, audioElement, listeners, synthQueue, synthSpeaking,
           utterEvents, engineVoices, fetches, blobUrls, startTimers,
           restartTimers, relistenTimers, nCalls, current, promise, callText,
           nUnlocks, watched, path, cancelled, onSpeakingStart, onSpeakingEnd,
           onError, requests, fallbacks, hardError, noVoice, delivered, turn,
           openaiSpeed, requestSpeed, requestKey, configuredSpeed, app, stallTimers,
           synthPaused, agent, voicePick, sanitizer >>

\* the current state as one record, and the commit of a record to the state
Cur ==
    [ isListening |-> isListening, isSpeaking |-> isSpeaking,
      continuousMode |-> continuousMode, isIOS |-> isIOS,
      cachedVoices |-> cachedVoices, ttsProvider |-> ttsProvider,
      openaiApiKey |-> openaiApiKey, audioUnlocked |-> audioUnlocked,
      pendingAudioUrl |-> pendingAudioUrl, recognition |-> recognition,
      audioElement |-> audioElement, listeners |-> listeners,
      synthQueue |-> synthQueue, synthSpeaking |-> synthSpeaking,
      utterEvents |-> utterEvents, engineVoices |-> engineVoices,
      fetches |-> fetches, blobUrls |-> blobUrls,
      startTimers |-> startTimers, restartTimers |-> restartTimers,
      relistenTimers |-> relistenTimers, nCalls |-> nCalls,
      current |-> current, promise |-> promise, callText |-> callText,
      path |-> path, cancelled |-> cancelled,
      onSpeakingStart |-> onSpeakingStart, onSpeakingEnd |-> onSpeakingEnd,
      onError |-> onError, requests |-> requests, fallbacks |-> fallbacks,
      hardError |-> hardError, noVoice |-> noVoice, nUnlocks |-> nUnlocks,
      watched |-> watched, turn |-> turn, openaiSpeed |-> openaiSpeed,
      requestSpeed |-> requestSpeed, configuredSpeed |-> configuredSpeed,
      requestKey |-> requestKey,
      app |-> app, stallTimers |-> stallTimers, synthPaused |-> synthPaused,
      aborted |-> <<>>,    \* play() promises rejected during this task
      event |-> "none",    \* the capture event or call this step handles
      fired |-> <<>> ]     \* the callbacks invoked during this step

Commit(s) ==
    /\ isListening' = s.isListening         /\ isSpeaking' = s.isSpeaking
    /\ continuousMode' = s.continuousMode   /\ isIOS' = s.isIOS
    /\ cachedVoices' = s.cachedVoices       /\ ttsProvider' = s.ttsProvider
    /\ openaiApiKey' = s.openaiApiKey       /\ audioUnlocked' = s.audioUnlocked
    /\ pendingAudioUrl' = s.pendingAudioUrl /\ recognition' = s.recognition
    /\ audioElement' = s.audioElement       /\ listeners' = s.listeners
    /\ synthQueue' = s.synthQueue           /\ synthSpeaking' = s.synthSpeaking
    /\ utterEvents' = s.utterEvents         /\ engineVoices' = s.engineVoices
    /\ fetches' = s.fetches                 /\ blobUrls' = s.blobUrls
    /\ startTimers' = s.startTimers         /\ restartTimers' = s.restartTimers
    /\ relistenTimers' = s.relistenTimers   /\ nCalls' = s.nCalls
    /\ current' = s.current                 /\ promise' = s.promise
    /\ callText' = s.callText               /\ path' = s.path
    /\ cancelled' = s.cancelled
    /\ onSpeakingStart' = s.onSpeakingStart /\ onSpeakingEnd' = s.onSpeakingEnd
    /\ onError' = s.onError                 /\ requests' = s.requests
    /\ fallbacks' = s.fallbacks
    /\ hardError' = s.hardError             /\ noVoice' = s.noVoice
    /\ nUnlocks' = s.nUnlocks               /\ watched' = s.watched
    /\ turn' = s.turn                       /\ openaiSpeed' = s.openaiSpeed
    /\ requestSpeed' = s.requestSpeed       /\ configuredSpeed' = s.configuredSpeed
    /\ requestKey' = s.requestKey
    /\ app' = s.app                         /\ stallTimers' = s.stallTimers
    /\ synthPaused' = s.synthPaused
    /\ delivered' = [event |-> s.event, callbacks |-> s.fired]
    /\ UNCHANGED << sanitizer, agent, voicePick >>

ControllerInit ==
    /\ isListening = FALSE /\ isSpeaking = FALSE /\ continuousMode \in BOOLEAN
    /\ \E p \in Platforms : /\ isIOS = p.isIOS
                            /\ engineVoices = p.voices
                            /\ recognition = p.recognition
    /\ cachedVoices = engineVoices
    /\ ttsProvider = "browser" /\ openaiApiKey = "" /\ audioUnlocked = FALSE
    /\ pendingAudioUrl = 0
    /\ audioElement = [src |-> 0, st |-> "idle"] /\ listeners = <<>>
    /\ synthQueue = <<>> /\ synthSpeaking = FALSE /\ utterEvents = <<>>
    /\ fetches = [c \in Calls |-> "none"] /\ blobUrls = {}
    /\ startTimers = <<>> /\ restartTimers = 0 /\ relistenTimers = 0
    /\ stallTimers = [interval |-> <<>>, timeout |-> <<>>]
    /\ synthPaused = FALSE
    /\ nCalls = 0 /\ current = 0
    /\ promise = [c \in Calls |-> "none"]
    /\ callText = [c \in Calls |-> <<>>]
    /\ nUnlocks = 0
    /\ watched \in Calls
    /\ path = "none" /\ cancelled = FALSE
    /\ onSpeakingStart = 0 /\ onSpeakingEnd = 0 /\ onError = 0
    /\ requests = 0 /\ fallbacks = 0
    /\ hardError = FALSE /\ noVoice = FALSE
    /\ delivered = [event |-> "none", callbacks |-> <<>>]
    /\ turn = NoTurn
    /\ openaiSpeed = DefaultSpeed /\ configuredSpeed = DefaultSpeed
    /\ requestSpeed = 0 /\ requestKey = "none"

SanitizerAt(text) == [input |-> text, passes |-> 0, once |-> <<>>, twice |-> <<>>]

\* the agent once initializeWithMemory has stored the system message
AgentInit == agent = [conversationHistory |-> << "system" >>, sends |-> 0,
                      last |-> "none"]

Init ==
    /\ ControllerInit /\ app = NoApp /\ AgentInit /\ voicePick = NoPick
    /\ sanitizer = SanitizerAt(<<>>)

\* ------------------------------------------------------- handler operators
\* an observation counter of the watched call, after an event of call c
Inc(n, c) == IF c = watched THEN n + 1 ELSE n

\* KuchiApp.setState
setState(s, state) == [s EXCEPT !.app.state = state]

\* a handleError that shows every message as an error
handleErrorAlwaysShown(s, noSpeech) ==
    [s EXCEPT !.app.state = "error", !.app.errorTimer = TRUE]

\* KuchiApp.handleError: 'No speech detected' returns to idle at once, any
\* other message shows the error state, left by a timer 4 s later
handleError(s, noSpeech) ==
    IF noSpeech THEN setState(s, "idle")
    ELSE [s EXCEPT !.app.state = "error", !.app.errorTimer = TRUE]

\* KuchiApp.handleSpeechResult up to its await of agent.sendMessage()
handleSpeechResult(s) ==
    IF s.event = "empty-transcript" THEN handleError(s, TRUE)
    ELSE IF ~s.app.agent THEN handleError(s, FALSE)
    ELSE [s EXCEPT !.app.state = "processing", !.app.thinking = @ + 1]

\* the handlers KuchiApp passes to the controller as its callbacks
KuchiAppCallback(s, cb) ==
    CASE cb = "onListeningStart" -> setState(s, "listening")
      [] cb = "onListeningEnd" ->
            IF s.app.state = "listening" THEN setState(s, "idle") ELSE s
      [] cb = "onSpeechResult" -> handleSpeechResult(s)
      [] cb = "onSpeakingStart" -> setState(s, "speaking")
      [] cb = "onSpeakingEnd" -> setState(s, "idle")
      [] cb = "onError" -> handleError(s, s.event = "no-speech")
      [] OTHER -> s

\* this.callbacks.<cb>?.(): the callback is invoked; while a turn is open its
\* listening and speaking notifications are logged, up to the first one that
\* leaves the order of a turn
Fire(s, cb) ==
    LET log == s.turn.log
        logged == /\ s.turn.open /\ cb \in TurnCallbacks
                  /\ Len(log) < Len(TurnOrder)
                  /\ log = SubSeq(TurnOrder, 1, Len(log))
        s1 == [s EXCEPT !.fired = Append(@, cb),
                        !.turn.log = IF logged THEN Append(@, cb) ELSE @]
    IN  IF s.app.attached THEN KuchiAppCallback(s1, cb) ELSE s1

\* the three notifications of the handlers of speak() invocation c
Started(s, c) == Fire([s EXCEPT !.onSpeakingStart = Inc(@, c)], "onSpeakingStart")

Ended(s, c) == Fire([s EXCEPT !.onSpeakingEnd = Inc(@, c)], "onSpeakingEnd")

Failed(s, c) == Fire([s EXCEPT !.onError = Inc(@, c)], "onError")

\* resolve()/reject() of the promise returned by speak(): the first one wins
settle(s, c, v) ==
    IF s.promise[c] # "pending" THEN s
    ELSE LET s1 == [s EXCEPT !.promise[c] = v]
         IN  IF v = "rejected" /\ s.app.attached THEN handleError(s1, FALSE)
             ELSE s1

\* a startListening() that returns silently when there is no engine
startListeningSilent(s) ==
    IF s.recognition = "null" \/ s.isListening THEN s
    ELSE IF s.recognition = "idle" THEN [s EXCEPT !.recognition = "starting"]
    ELSE Fire(s, "onError")

\* recognition.start() throws InvalidStateError unless the engine is idle
startListening(s) ==
    IF s.recognition = "null" THEN Fire(s, "onError")
    ELSE IF s.isListening THEN s
    ELSE IF s.recognition = "idle" THEN [s EXCEPT !.recognition = "starting"]
    ELSE Fire(s, "onError")

\* a stopListening() that would clear the flag itself
stopListeningEager(s) ==
    IF s.recognition # "null" /\ s.isListening
    THEN [s EXCEPT !.recognition = IF @ = "active" THEN "stopping" ELSE @,
                   !.isListening = FALSE]
    ELSE s

stopListening(s) ==
    IF s.recognition # "null" /\ s.isListening
    THEN [s EXCEPT !.recognition = IF @ = "active" THEN "stopping" ELSE @]
    ELSE s

\* speechSynthesis.cancel(): the queue is emptied; every removed utterance
\* gets an error event, 'interrupted' if it was being spoken, else 'canceled'
\* (the silent priming utterances, call 0, have no handlers)
synthesisCancel(s) ==
    LET q  == s.synthQueue
        ev == [i \in 1..Len(q) |->
                 [call |-> q[i].call,
                  error |-> IF i = 1 /\ s.synthSpeaking
                            THEN "interrupted" ELSE "canceled"]]
    IN  [s EXCEPT !.utterEvents = @ \o SelectSeq(ev, LAMBDA e : e.call \in Calls),
                  !.synthQueue = <<>>,
                  !.synthSpeaking = FALSE]

\* HTMLMediaElement.pause(): a play() promise still pending is rejected
audioPause(s) ==
    IF s.audioElement.st = "loading"
    THEN [s EXCEPT !.audioElement.st = "paused",
                   !.aborted = Append(@, s.audioElement.src)]
    ELSE IF s.audioElement.st = "playing"
    THEN [s EXCEPT !.audioElement.st = "paused"]
    ELSE s

stopSpeaking(s) ==
    LET s1 == [s EXCEPT !.isSpeaking = FALSE,
                        !.cancelled = @ \/ s.promise[watched] = "pending"]
        s2 == audioPause(s1)
        s3 == [s2 EXCEPT !.blobUrls = @ \ {s2.pendingAudioUrl},
                         !.pendingAudioUrl = 0]
    IN  synthesisCancel(s3)

speakWithBrowser(s, c, text) ==
    LET s1 == synthesisCancel(s)
    IN  [s1 EXCEPT !.startTimers = Append(@, [call |-> c, text |-> text])]

\* the closure cleanup() of the playback promise of call c
cleanup(s, c) ==
    [s EXCEPT !.listeners = SelectSeq(@, LAMBDA x : x # c),
              !.blobUrls = @ \ {s.pendingAudioUrl},
              !.pendingAudioUrl = 0]

\* a re-listen timer scheduled whatever the mode
scheduleRelistenAlways(s) == [s EXCEPT !.relistenTimers = @ + 1]

scheduleRelisten(s) ==
    IF s.continuousMode THEN [s EXCEPT !.relistenTimers = @ + 1] ELSE s

\* audioElement.onended, installed once by initializeAudioElement; the audio
\* that ended is the one of call src (0: the silent clip)
elementOnEnded(s, src) ==
    scheduleRelisten(Ended([s EXCEPT !.isSpeaking = FALSE], src))

\* the 'ended' listener of call c
onEnded(s, c) ==
    LET s1 == cleanup(s, c)
        s2 == Ended([s1 EXCEPT !.isSpeaking = FALSE], c)
    IN  settle(scheduleRelisten(s2), c, "resolved")

\* the 'error' listener of call c
onErrorListener(s, c) ==
    LET s1 == cleanup(s, c)
        s2 == Ended([s1 EXCEPT !.isSpeaking = FALSE, !.fallbacks = Inc(@, c)], c)
    IN  speakWithBrowser(s2, c, s.callText[c])

\* playPromise.catch of call c
playCatch(s, c) ==
    LET s1 == cleanup(s, c)
        s2 == Ended([s1 EXCEPT !.isSpeaking = FALSE, !.fallbacks = Inc(@, c)], c)
    IN  speakWithBrowser(s2, c, s.callText[c])

\* a catch block that rethrows instead of falling back
remoteCatchRethrow(s, c) ==
    settle(Ended([s EXCEPT !.isSpeaking = FALSE], c), c, "rejected")

\* the catch block of speakWithOpenAI
remoteCatch(s, c) ==
    LET s1 == Ended([s EXCEPT !.isSpeaking = FALSE, !.fallbacks = Inc(@, c)], c)
    IN  speakWithBrowser(s1, c, s.callText[c])

\* a gate that ignores the unlock flag
RemoteAllowedAlways(s) == TRUE

\* the unlock check that opens speakWithOpenAI
RemoteAllowed(s) == s.audioUnlocked

\* speakWithOpenAI up to the await of fetch

speakWithOpenAI(s, c, text) ==
    IF ~RemoteAllowed(s)
    THEN speakWithBrowser([s EXCEPT !.path = IF c = watched THEN "locked" ELSE @],
                          c, text)
    ELSE LET s1 == [s EXCEPT !.isSpeaking = TRUE,
                                 !.path = IF c = watched THEN "remote" ELSE @]
             s2 == IF s1.isListening THEN stopListening(s1) ELSE s1
         IN  [Started(s2, c) EXCEPT
                 !.fetches[c] = "inflight",
                 !.requests = Inc(@, c),
                 !.requestSpeed = IF c = watched THEN s.openaiSpeed ELSE @,
                 !.requestKey = IF c = watched THEN s.openaiApiKey ELSE @]

\* speakWithOpenAI after the response: blob, object URL, playback promise
playResponse(s, c) ==
    LET old == s.audioElement
        s1 == [s EXCEPT !.fetches[c] = "done",
                        !.blobUrls = @ \cup {c},
                        !.pendingAudioUrl = c,
                        !.listeners = Append(@, c)]
    IN  [s1 EXCEPT !.audioElement = [src |-> c, st |-> "loading"],
                   !.aborted = IF old.st = "loading"
                               THEN Append(@, old.src) ELSE @]

\* a routing that looks at the provider only
UsesRemoteAnyKey(s) == s.ttsProvider = "openai"

\* the routing of speak(): the remote path needs the provider and a key
UsesRemote(s) == s.ttsProvider = "openai" /\ s.openaiApiKey # ""

\* a speak() that stops the current speech before it looks at the text
speakStopFirst(s, raw) ==
    LET c == s.nCalls + 1
        cleanText == cleanTextForSpeech(raw)
        s1 == stopSpeaking(s)
    IN  IF cleanText = <<>>
        THEN [s1 EXCEPT !.nCalls = c, !.promise[c] = "resolved",
                        !.path = IF c = watched THEN "empty" ELSE @]
        ELSE LET s2 == [s1 EXCEPT !.nCalls = c, !.current = c,
                                  !.promise[c] = "pending",
                                  !.callText[c] = cleanText]
             IN  IF UsesRemote(s2)
                 THEN speakWithOpenAI(s2, c, cleanText)
                 ELSE speakWithBrowser(
                          [s2 EXCEPT !.path = IF c = watched THEN "local" ELSE @],
                          c, cleanText)

speak(s, raw) ==
    LET c == s.nCalls + 1
        cleanText == cleanTextForSpeech(raw)
    IN  IF cleanText = <<>>
        THEN [s EXCEPT !.nCalls = c, !.promise[c] = "resolved",
                       !.path = IF c = watched THEN "empty" ELSE @]
        ELSE LET s1 == stopSpeaking(s)
                 s2 == [s1 EXCEPT !.nCalls = c, !.current = c,
                                  !.promise[c] = "pending",
                                  !.callText[c] = cleanText]
             IN  IF UsesRemote(s2)
                 THEN speakWithOpenAI(s2, c, cleanText)
                 ELSE speakWithBrowser(
                          [s2 EXCEPT !.path = IF c = watched THEN "local" ELSE @],
                          c, cleanText)

\* Array.prototype.find, given the elements that satisfy the test in the
\* order of the array: the first of them, as a sequence of at most one element
Find(hits) == IF hits = <<>> THEN <<>> ELSE << hits[1] >>

\* selectBrowserVoice on the available voices: the name of the voice returned
selectBrowserVoice(voices, preferredVoiceName, ios) ==
    LET userPreferred ==
            Find(SelectSeq(voices, LAMBDA v : v.name = preferredVoiceName))
        iosPreferred ==
            Find(SelectSeq(voices, LAMBDA v :
                    \/ \E part \in IosNames : Includes(v.name, part)
                    \/ StartsWithEn(v.lang) /\ v.localService))
        preferred ==
            Find(SelectSeq(voices, LAMBDA v :
                    \E part \in QualityNames : Includes(v.name, part)))
        englishVoice == Find(SelectSeq(voices, LAMBDA v : StartsWithEn(v.lang)))
    IN  IF voices = <<>> THEN "null"
        ELSE IF preferredVoiceName # "" /\ userPreferred # <<>>
             THEN userPreferred[1].name
        ELSE IF ios /\ iosPreferred # <<>> THEN iosPreferred[1].name
        ELSE IF preferred # <<>> THEN preferred[1].name
        ELSE IF englishVoice # <<>> THEN englishVoice[1].name
        ELSE voices[1].name

\* the timer body startSpeech of speakWithBrowser, for the oldest timer
startSpeech(s) ==
    LET t == Head(s.startTimers)
        cached == IF s.engineVoices # <<>> THEN s.engineVoices ELSE s.cachedVoices
        voice == selectBrowserVoice(cached, "", s.isIOS)
        s1 == [s EXCEPT !.startTimers = Tail(@),
                  !.synthPaused = FALSE,
                  !.cachedVoices = cached,
                  !.synthQueue = Append(@, [call |-> t.call, text |-> t.text,
                                            voice |-> voice]),
                  !.noVoice = @ \/ (t.call = watched /\ voice = "null")]
    IN  IF s.isIOS
        THEN [s1 EXCEPT !.stallTimers.interval = Append(@, t.call),
                        !.stallTimers.timeout = Append(@, t.call)]
        ELSE s1

utteranceOnStart(s, c) ==
    LET s1 == [s EXCEPT !.isSpeaking = TRUE]
        s2 == IF s1.isListening THEN stopListening(s1) ELSE s1
    IN  Started(s2, c)

\* a sequence of timers without the first one that belongs to call c
ClearTimer(timers, c) ==
    IF \E i \in DOMAIN timers : timers[i] = c
    THEN LET k == CHOOSE i \in DOMAIN timers :
                    timers[i] = c /\ \A j \in 1..(i - 1) : timers[j] # c
         IN  SubSeq(timers, 1, k - 1) \o SubSeq(timers, k + 1, Len(timers))
    ELSE timers

\* utterance.onend; on iOS the handler is replaced by one that clears the two
\* stall timers of the utterance and schedules no re-listen
utteranceOnEnd(s, c) ==
    LET s1 == Ended([s EXCEPT !.isSpeaking = FALSE], c)
        s2 == IF s.isIOS
              THEN [s1 EXCEPT !.stallTimers.interval = ClearTimer(@, c),
                              !.stallTimers.timeout = ClearTimer(@, c)]
              ELSE scheduleRelisten(s1)
    IN  settle(s2, c, "resolved")

\* a tick of the 250 ms interval of the utterance of call c: it clears itself
\* if the speaking flag is false, else it resumes the engine if paused
checkInterval(s, c) ==
    IF ~s.isSpeaking THEN [s EXCEPT !.stallTimers.interval = ClearTimer(@, c)]
    ELSE [s EXCEPT !.synthPaused = FALSE]

\* the 14 s timer of the utterance of call c: it resumes the engine if paused
resumeTimeout(s, c) ==
    [s EXCEPT !.stallTimers.timeout = ClearTimer(@, c), !.synthPaused = FALSE]

\* a handler for which every error of the engine is a failure
IsCancelErrorNever(error) == FALSE

IsCancelError(error) == error \in {"interrupted", "canceled"}

utteranceOnError(s, c, error) ==
    LET s1 == [s EXCEPT !.isSpeaking = FALSE]
    IN  IF IsCancelError(error)
        THEN settle(Ended(s1, c), c, "resolved")
        ELSE settle(Failed([s1 EXCEPT !.hardError = @ \/ c = watched], c),
                    c, "rejected")

\* the rejections of play() promises caused by this task run right after it
drain(s) ==
    IF s.aborted # <<>> /\ s.aborted[1] \in Calls
    THEN playCatch(s, s.aborted[1])
    ELSE s

\* an 'ended' / 'error' event runs the listeners attached at dispatch time
RECURSIVE fireEnded(_, _)
fireEnded(s, cs) ==
    IF cs = <<>> THEN s ELSE fireEnded(onEnded(s, Head(cs)), Tail(cs))

RECURSIVE fireError(_, _)
fireError(s, cs) ==
    IF cs = <<>> THEN s ELSE fireError(onErrorListener(s, Head(cs)), Tail(cs))

\* an unlockAudio() that leaves the flag to the success callback of play()
unlockAudioOnSuccess(s) ==
    LET old == s.audioElement
        s1 == [s EXCEPT !.audioElement = [src |-> 0, st |-> "loading"],
                        !.aborted = IF old.st = "loading"
                                    THEN Append(@, old.src) ELSE @]
    IN  [s1 EXCEPT !.synthQueue =
                       Append(@, [call |-> 0, text |-> <<>>, voice |-> "null"]),
                   !.nUnlocks = @ + 1]

unlockAudio(s) ==
    LET old == s.audioElement
        \* method 1: the silent clip is loaded into the shared element and played
        s1 == [s EXCEPT !.audioElement = [src |-> 0, st |-> "loading"],
                        !.aborted = IF old.st = "loading"
                                    THEN Append(@, old.src) ELSE @]
        \* method 3: a silent utterance is handed to the local engine
        s2 == [s1 EXCEPT !.synthQueue =
                   Append(@, [call |-> 0, text |-> <<>>, voice |-> "null"])]
    IN  [s2 EXCEPT !.audioUnlocked = TRUE, !.nUnlocks = @ + 1]

setContinuousMode(s, enabled) ==
    LET s1 == [s EXCEPT !.continuousMode = enabled]
    IN  IF enabled /\ ~s1.isListening /\ ~s1.isSpeaking THEN startListening(s1)
        ELSE IF ~enabled /\ s1.isListening THEN stopListening(s1)
        ELSE s1

\* recognition.onstart
recognitionOnStart(s) ==
    Fire([s EXCEPT !.isListening = TRUE], "onListeningStart")

\* recognition.onresult; the application receives the transcript, and in
\* continuous mode a turn opens unless its reply was already spoken
recognitionOnResult(s) ==
    LET s1 == Fire(s, "onSpeechResult")
    IN  IF s.continuousMode /\ s.nCalls = 0
        THEN [s1 EXCEPT !.turn = [open |-> TRUE, log |-> <<>>]]
        ELSE s1

\* a handler that reports every recognition error to the caller
recognitionOnErrorSurfacing(s, error) ==
    Fire([s EXCEPT !.isListening = FALSE], "onError")

\* recognition.onerror
recognitionOnError(s, error) ==
    LET s1 == [s EXCEPT !.isListening = FALSE]
    IN  IF error = "aborted" THEN Fire(s1, "onListeningEnd")
        ELSE Fire(s1, "onError")

recognitionOnEnd(s) ==
    LET s1 == Fire([s EXCEPT !.isListening = FALSE, !.recognition = "idle"],
                   "onListeningEnd")
    IN  IF s1.continuousMode /\ ~s1.isSpeaking
        THEN [s1 EXCEPT !.restartTimers = @ + 1]
        ELSE s1

\* KuchiApp.handleMicClick: a click of the mic button or a press of the
\* spacebar
handleMicClick(s) ==
    LET s1 == unlockAudio(s)
    IN  IF s1.app.state \in {"processing", "speaking"} THEN s1
        ELSE IF s1.app.state = "listening"
             THEN setState(stopListening(s1), "idle")
        ELSE IF ~s1.app.agent THEN s1
        ELSE startListening(setState(s1, "listening"))

\* KuchiApp.handleSpeechResult after its await: the reply is spoken, or the
\* failure of the request is shown
handleAgentReply(s, ok, raw) ==
    LET s1 == [s EXCEPT !.app.thinking = @ - 1]
    IN  IF ok THEN speak(setState(s1, "speaking"), raw)
        ELSE handleError(s1, FALSE)

\* a restart timer that does not look at the speaking flag
restartListeningUnchecked(s) == startListening(s)

\* the callback of the timer of recognition.onend
restartListening(s) == IF ~s.isSpeaking THEN startListening(s) ELSE s

\* a clamp that has lost its floor
ClampNoFloor(speed) == IF speed > MaxSpeed THEN MaxSpeed ELSE speed

\* Math.max(0.25, Math.min(4.0, speed))
Clamp(speed) ==
    LET upper == IF speed < MaxSpeed THEN speed ELSE MaxSpeed
    IN  IF upper > MinSpeed THEN upper ELSE MinSpeed

enableOpenAITTS(s, apiKey, speed) ==
    [s EXCEPT !.ttsProvider = "openai", !.openaiApiKey = apiKey,
              !.openaiSpeed = Clamp(speed), !.configuredSpeed = speed]

setOpenAISpeed(s, speed) ==
    [s EXCEPT !.openaiSpeed = Clamp(speed), !.configuredSpeed = speed]

\* ---------------------------------------------------------------- actions
\* calls of the application
UserMayTap == restartTimers + relistenTimers < MaxTimers

\* a call of the application outside the reply of a turn abandons the turn
AppCall(event) == [Cur EXCEPT !.event = event, !.turn = NoTurn]

StartListening == UserMayTap /\ Commit(startListening(AppCall("startListening")))

StopListening ==
    /\ Commit(stopListening(AppCall("stopListening")))

\* the reply of a turn is spoken after the backend answered, by which time the
\* capture of the turn has ended; a speak() before that is not its reply
Reply(s) ==
    IF s.turn.open /\ s.turn.log = <<>> THEN [s EXCEPT !.turn = NoTurn] ELSE s

Speak(limit, raw) == nCalls < limit /\ Commit(drain(speak(Reply(Cur), raw)))

StopSpeaking ==
    /\ Commit(drain(stopSpeaking(AppCall("none"))))

SetContinuousMode(enabled) ==
    /\ enabled # continuousMode
    /\ enabled => UserMayTap
    /\ Commit(setContinuousMode(AppCall("none"), enabled))

UnlockAudio ==
    nUnlocks < MaxUnlocks /\ Commit(drain(unlockAudio(AppCall("none"))))

EnableOpenAITTS(apiKey) ==
    /\ ttsProvider # "openai" \/ openaiApiKey # apiKey
    /\ Commit(enableOpenAITTS(Cur, apiKey, DefaultSpeed))

\* enableOpenAITTS with its speed argument, and setOpenAISpeed
EnableOpenAITTSAtSpeed(speed) ==
    /\ speed # configuredSpeed
    /\ Commit(enableOpenAITTS(Cur, "sk-key", speed))

SetOpenAISpeed(speed) ==
    /\ speed # configuredSpeed
    /\ Commit(setOpenAISpeed(Cur, speed))

UseBrowserTTS ==
    /\ ttsProvider # "browser"
    /\ Commit([Cur EXCEPT !.ttsProvider = "browser"])

\* the network: the synthesis request of call c is answered
FetchResponse(c, ok) ==
    /\ fetches[c] = "inflight"
    /\ Commit(drain(IF ok THEN playResponse(Cur, c)
                    ELSE remoteCatch([Cur EXCEPT !.fetches[c] = "done"], c)))

\* the audio element
AudioPlayStarted ==
    /\ audioElement.st = "loading"
    /\ Commit(IF audioElement.src = 0
              THEN [Cur EXCEPT !.audioUnlocked = TRUE,
                               !.audioElement.st = "paused"]
              ELSE [Cur EXCEPT !.audioElement.st = "playing"])

AudioPlayRejected ==
    /\ audioElement.st = "loading"
    /\ LET s == [Cur EXCEPT !.audioElement.st = "idle"]
       IN  Commit(IF audioElement.src \in Calls
                  THEN playCatch(s, audioElement.src) ELSE s)

\* the resource cannot be loaded: 'error' is fired, then play() is rejected
AudioLoadError ==
    /\ audioElement.st = "loading" /\ audioElement.src \in Calls
    /\ LET s == [Cur EXCEPT !.audioElement.st = "idle"]
       IN  Commit(playCatch(fireError(s, listeners), audioElement.src))

AudioEnded ==
    /\ audioElement.st = "playing"
    /\ LET s == [Cur EXCEPT !.audioElement.st = "idle", !.event = "audioEnded"]
       IN  Commit(fireEnded(elementOnEnded(s, audioElement.src), listeners))

AudioError ==
    /\ audioElement.st = "playing"
    /\ Commit(fireError([Cur EXCEPT !.audioElement.st = "idle"], listeners))

\* the application in the browser
MicClick ==
    /\ nUnlocks < MaxTaps
    /\ Commit(drain(handleMicClick(AppCall("micClick"))))

AgentReply(ok, raw) ==
    /\ app.thinking > 0 /\ nCalls < MaxCalls
    /\ Commit(drain(handleAgentReply(Reply(Cur), ok, raw)))

\* a 4 s timer of handleError; others may still be pending
ErrorTimer(more) ==
    /\ app.errorTimer
    /\ Commit([Cur EXCEPT !.app.state = IF @ = "error" THEN "idle" ELSE @,
                          !.app.errorTimer = more])

\* the timer queue
StartSpeechTimer == startTimers # <<>> /\ Commit(startSpeech(Cur))

RestartTimer ==
    /\ restartTimers > 0
    /\ Commit(restartListening([Cur EXCEPT !.restartTimers = @ - 1,
                                           !.event = "restartTimer"]))

RelistenTimer ==
    /\ relistenTimers > 0
    /\ Commit(startListening([Cur EXCEPT !.relistenTimers = @ - 1]))

\* the timers of the stall workaround
CheckInterval(c) ==
    /\ \E i \in DOMAIN stallTimers.interval : stallTimers.interval[i] = c
    /\ Commit(checkInterval([Cur EXCEPT !.event = "checkInterval"], c))

ResumeTimeout(c) ==
    /\ \E i \in DOMAIN stallTimers.timeout : stallTimers.timeout[i] = c
    /\ Commit(resumeTimeout([Cur EXCEPT !.event = "resumeTimeout"], c))

\* the local synthesis engine; while paused it neither starts nor ends an
\* utterance
EnginePause ==
    /\ isIOS /\ synthSpeaking /\ ~synthPaused
    /\ Commit([Cur EXCEPT !.synthPaused = TRUE])

UtteranceStart ==
    /\ synthQueue # <<>> /\ ~synthSpeaking /\ ~synthPaused
    /\ LET s == [Cur EXCEPT !.synthSpeaking = TRUE]
           c == Head(synthQueue).call
       IN  Commit(IF c \in Calls THEN utteranceOnStart(s, c) ELSE s)

UtteranceEnd ==
    /\ synthQueue # <<>> /\ synthSpeaking /\ ~synthPaused
    /\ LET s == [Cur EXCEPT !.synthQueue = Tail(@), !.synthSpeaking = FALSE,
                            !.event = "utteranceEnd"]
           c == Head(synthQueue).call
       IN  Commit(IF c \in Calls THEN utteranceOnEnd(s, c) ELSE s)

UtteranceError ==
    /\ synthQueue # <<>> /\ Head(synthQueue).call \in Calls
    /\ LET s == [Cur EXCEPT !.synthQueue = Tail(@), !.synthSpeaking = FALSE]
       IN  Commit(utteranceOnError(s, Head(synthQueue).call, "synthesis-failed"))

UtteranceCancelled ==
    /\ utterEvents # <<>>
    /\ LET e == Head(utterEvents)
       IN  Commit(utteranceOnError([Cur EXCEPT !.utterEvents = Tail(@)],
                                   e.call, e.error))

\* the recognition engine
RecognitionStart ==
    /\ recognition = "starting"
    /\ Commit(recognitionOnStart([Cur EXCEPT !.recognition = "active"]))

\* a result event of the engine; the transcript may be empty or blank
RecognitionResult(blank) ==
    /\ recognition \in {"active", "stopping"}
    /\ Commit(recognitionOnResult(
                 [Cur EXCEPT !.recognition = "closing",
                             !.event = IF blank THEN "empty-transcript" ELSE @]))

\* an error event of the engine; its end event follows
RecognitionError(error) ==
    /\ recognition \in {"starting", "active", "stopping"}
    /\ Commit(recognitionOnError([Cur EXCEPT !.recognition = "closing",
                                              !.event = error], error))

RecognitionEnd ==
    /\ recognition \in {"active", "stopping", "closing"}
    /\ Commit(recognitionOnEnd(Cur))

CaptureCalls ==
    \/ StartListening
    \/ StopListening

OutputCalls(limit) ==
    \/ \E raw \in RawTexts : Speak(limit, raw)
    \/ StopSpeaking
    \/ \E enabled \in BOOLEAN : SetContinuousMode(enabled)
    \/ UnlockAudio
    \/ \E apiKey \in {"", "sk-key"} : EnableOpenAITTS(apiKey)
    \/ UseBrowserTTS

CaptureEvents ==
    \/ RestartTimer
    \/ RecognitionStart
    \/ \E blank \in BOOLEAN : RecognitionResult(blank)
    \/ \E error \in RecognitionErrors : RecognitionError(error)
    \/ RecognitionEnd

OutputEvents ==
    \/ \E c \in Calls, ok \in BOOLEAN : FetchResponse(c, ok)
    \/ AudioPlayStarted
    \/ AudioPlayRejected
    \/ AudioLoadError
    \/ AudioEnded
    \/ AudioError
    \/ StartSpeechTimer
    \/ RelistenTimer
    \/ UtteranceStart
    \/ UtteranceEnd
    \/ UtteranceError
    \/ UtteranceCancelled

\* capture and output together, every platform
Next == CaptureCalls \/ OutputCalls(MaxTurnCalls) \/ CaptureEvents \/ OutputEvents

Spec == Init /\ [][Next]_vars

\* the output controller on the platforms without recognition engine, where
\* the capture calls and the re-listen timers do nothing
OutputInit == Init /\ recognition = "null"

OutputNext == OutputCalls(MaxCalls) \/ OutputEvents

OutputSpec == OutputInit /\ [][OutputNext]_vars

\* the application as configured: KuchiApp constructs the controller with
\* continuous = false, never switches the mode or the provider, and calls it
\* from handleMicClick and handleSpeechResult only
AppInit ==
    /\ ControllerInit /\ ~continuousMode /\ AgentInit /\ voicePick = NoPick
    /\ sanitizer = SanitizerAt(<<>>)
    /\ \E configured \in BOOLEAN :
          app = [attached |-> TRUE, agent |-> configured, state |-> "idle",
                 thinking |-> 0, errorTimer |-> FALSE]

AppNext ==
    \/ MicClick
    \/ \E ok \in BOOLEAN, raw \in RawTexts : AgentReply(ok, raw)
    \/ \E more \in BOOLEAN : ErrorTimer(more)
    \/ RecognitionStart
    \/ \E blank \in BOOLEAN : RecognitionResult(blank)
    \/ \E error \in RecognitionErrors : RecognitionError(error)
    \/ RecognitionEnd
    \/ AudioPlayStarted
    \/ AudioPlayRejected
    \/ StartSpeechTimer
    \/ UtteranceStart
    \/ UtteranceEnd
    \/ UtteranceError

AppSpec == AppInit /\ [][AppNext]_vars

\* a conversation in continuous mode with the local voice: the replies are
\* spoken one after the other and the engine is restarted by the timers
LocalEvents ==
    \/ StartSpeechTimer
    \/ RelistenTimer
    \/ UtteranceStart
    \/ UtteranceEnd
    \/ UtteranceError
    \/ UtteranceCancelled

ConversationInit == Init /\ continuousMode /\ recognition = "idle"

ConversationNext ==
    \/ \E raw \in RawTexts : Speak(MaxCalls, raw)
    \/ LocalEvents
    \/ CaptureEvents

ConversationSpec == ConversationInit /\ [][ConversationNext]_vars

\* the local voice on the stall-prone platform, with the workaround timers
StallInit == OutputInit /\ isIOS

StallNext ==
    \/ \E raw \in RawTexts : Speak(MaxCalls, raw)
    \/ StopSpeaking
    \/ StartSpeechTimer
    \/ UtteranceStart
    \/ UtteranceEnd
    \/ UtteranceError
    \/ UtteranceCancelled
    \/ EnginePause
    \/ \E c \in Calls : CheckInterval(c)
    \/ \E c \in Calls : ResumeTimeout(c)

StallSpec == StallInit /\ [][StallNext]_vars

\* the user taps while the controller speaks: every tap of the mic button
\* calls unlockAudio() before anything else
UnlockAudioOnTap ==
    nUnlocks < MaxTaps /\ Commit(drain(unlockAudio(AppCall("unlockAudio"))))

TapInit == OutputInit /\ watched = 1

TapNext ==
    \/ UnlockAudioOnTap
    \/ EnableOpenAITTS("sk-key")
    \/ \E enabled \in BOOLEAN : SetContinuousMode(enabled)
    \/ \E raw \in RawTexts : Speak(MaxTurnCalls, raw)
    \/ \E c \in Calls, ok \in BOOLEAN : FetchResponse(c, ok)
    \/ AudioPlayStarted
    \/ AudioPlayRejected
    \/ AudioLoadError
    \/ AudioEnded
    \/ AudioError
    \/ StartSpeechTimer
    \/ RelistenTimer
    \/ UtteranceStart
    \/ UtteranceEnd
    \/ UtteranceError

TapSpec == TapInit /\ [][TapNext]_vars

\* the output controller with the speed of the remote voice configured
SpeedCalls ==
    \/ \E speed \in Speeds : EnableOpenAITTSAtSpeed(speed)
    \/ \E speed \in Speeds : SetOpenAISpeed(speed)

SpeedNext == SpeedCalls \/ OutputCalls(MaxTurnCalls) \/ OutputEvents

SpeedSpec == OutputInit /\ [][SpeedNext]_vars

\* the sanitizer alone, on every input text, applied once and then to its
\* own result
controllerVars ==
    << isListening, isSpeaking, continuousMode, isIOS, cachedVoices,
       ttsProvider, openaiApiKey, audioUnlocked, pendingAudioUrl,
       recognition, audioElement, listeners, synthQueue, synthSpeaking,
       utterEvents, engineVoices, fetches, blobUrls, startTimers,
       restartTimers, relistenTimers, nCalls, current, promise, callText,
       nUnlocks, watched, path, cancelled, onSpeakingStart, onSpeakingEnd,
       onError, requests, fallbacks, hardError, noVoice, delivered, turn,
       openaiSpeed, requestSpeed, requestKey, configuredSpeed, app, stallTimers,
       synthPaused >>

SanitizerInit ==
    /\ ControllerInit /\ ~continuousMode /\ ~isIOS /\ watched = 1
    /\ app = NoApp /\ AgentInit /\ voicePick = NoPick
    /\ recognition = "null" /\ engineVoices = OneVoice
    /\ \E text \in SanitizerInputs : sanitizer = SanitizerAt(text)

Sanitize ==
    /\ sanitizer.passes = 0
    /\ sanitizer' = [sanitizer EXCEPT !.passes = 1,
                                      !.once = cleanTextForSpeech(sanitizer.input)]
    /\ UNCHANGED << controllerVars, agent, voicePick >>

SanitizeAgain ==
    /\ sanitizer.passes = 1
    /\ sanitizer' = [sanitizer EXCEPT !.passes = 2,
                                      !.twice = cleanTextForSpeech(sanitizer.once)]
    /\ UNCHANGED << controllerVars, agent, voicePick >>

SanitizerNext == Sanitize \/ SanitizeAgain

SanitizerSpec == SanitizerInit /\ [][SanitizerNext]_vars

\* the agent alone: its conversation history under sendMessage() on each of
\* its paths and clearHistory()
trimHistory(h) ==
    IF Len(h) > HistoryLimit
    THEN << h[1] >> \o SubSeq(h, Len(h) - RecentKept + 1, Len(h))
    ELSE h

ReplyPaths == {"plain", "web_search", "play_music"}

\* the history after sendMessage(): the user message is stored first; the
\* first completion answers with text or with a tool call; the web_search
\* path stores the tool call, asks for a second completion and stores its
\* answer; a failed completion throws from where it is
sendMessage(h, replyPath, ok) ==
    LET h1 == Append(h, "user")
    IN  CASE replyPath = "plain" ->
                IF ok THEN trimHistory(Append(h1, "assistant")) ELSE h1
          [] replyPath = "web_search" ->
                IF ok THEN Append(Append(h1, "assistant"), "assistant")
                ELSE Append(h1, "assistant")
          [] replyPath = "play_music" -> Append(h1, "assistant")

SendMessage(replyPath, ok) ==
    /\ agent.sends < MaxSends
    /\ ok \/ replyPath # "play_music"
    /\ agent' = [conversationHistory |->
                    sendMessage(agent.conversationHistory, replyPath, ok),
                 sends |-> agent.sends + 1,
                 last |-> IF ok THEN replyPath ELSE "failed"]
    /\ UNCHANGED << controllerVars, sanitizer, voicePick >>

ClearHistory ==
    /\ agent.last # "none"
    /\ agent' = [agent EXCEPT !.conversationHistory = << @[1] >>,
                              !.last = "none"]
    /\ UNCHANGED << controllerVars, sanitizer, voicePick >>

AgentNext ==
    \/ \E replyPath \in ReplyPaths, ok \in BOOLEAN : SendMessage(replyPath, ok)
    \/ ClearHistory

AgentOnlyInit ==
    /\ Init /\ ~continuousMode /\ ~isIOS /\ watched = 1
    /\ recognition = "null" /\ engineVoices = OneVoice

AgentSpec == AgentOnlyInit /\ [][AgentNext]_vars

\* the voice selection alone, on every catalog, preference and platform
VoiceInit ==
    /\ ControllerInit /\ ~continuousMode /\ ~isIOS /\ watched = 1
    /\ recognition = "null" /\ engineVoices = OneVoice
    /\ app = NoApp /\ AgentInit /\ sanitizer = SanitizerAt(<<>>)
    /\ \E catalog \in Catalogs, preferred \in Preferences, ios \in BOOLEAN :
          voicePick = [NoPick EXCEPT !.catalog = catalog,
                                     !.preferred = preferred, !.ios = ios]

SelectVoice ==
    /\ ~voicePick.done
    /\ voicePick' = [voicePick EXCEPT
                        !.done = TRUE,
                        !.result = selectBrowserVoice(voicePick.catalog,
                                                      voicePick.preferred,
                                                      voicePick.ios)]
    /\ UNCHANGED << controllerVars, sanitizer, agent >>

VoiceSpec == VoiceInit /\ [][SelectVoice]_vars

\* ------------------------------------------------------------- properties
\* nothing asynchronous is pending: no request in flight, no audio loading or
\* playing, no utterance or utterance event queued, no timer, no capture
Quiescent ==
    /\ \A c \in Calls : fetches[c] # "inflight"
    /\ audioElement.st \notin {"loading", "playing"}
    /\ synthQueue = <<>> /\ utterEvents = <<>>
    /\ startTimers = <<>> /\ restartTimers = 0 /\ relistenTimers = 0
    /\ recognition \in {"null", "idle"}

\* the calls whose audio is sounding now
AudibleCalls ==
    (IF audioElement.st = "playing" THEN {audioElement.src} ELSE {})
    \cup (IF synthSpeaking /\ synthQueue # <<>>
          THEN {Head(synthQueue).call} ELSE {})

\* call c has a local attempt under way: a start timer, a queued or spoken
\* utterance, or the event of a cancelled one
LocalAttemptPending(c) ==
    \/ \E i \in DOMAIN startTimers : startTimers[i].call = c
    \/ \E i \in DOMAIN synthQueue : synthQueue[i].call = c
    \/ \E i \in DOMAIN utterEvents : utterEvents[i].call = c

\* C1: the listening flag and the speaking flag are never both true.
C1_NeverListeningAndSpeaking == ~(isListening /\ isSpeaking)

\* C2: after a later speak() has been invoked, no audio of an earlier call
\* sounds: whatever is playing or being spoken belongs to the last call.
C2_OnlyLastCallHeard == \A c \in AudibleCalls \cap Calls : c = current

\* C3: the promise of a speak() cancelled by stopSpeaking() or by a later
\* speak() is resolved once nothing is pending any more, and it rejects at
\* most when the local engine itself reported a failure.
C3_CancelledPromiseResolves ==
    cancelled =>
        /\ promise[watched] = "rejected" => hardError
        /\ (Quiescent /\ ~hardError) => promise[watched] = "resolved"

\* C4: when the response of a call superseded by a newer speak() arrives, it is
\* discarded: no playback is started, no local attempt is made and none of
\* onSpeakingStart, onSpeakingEnd, onError fires on its behalf.
C4_StaleResponseDiscarded ==
    [][ (fetches[watched] = "inflight" /\ fetches'[watched] = "done"
         /\ watched < current)
        => /\ audioElement' = audioElement
           /\ startTimers' = startTimers
           /\ onSpeakingStart' = onSpeakingStart
           /\ onSpeakingEnd' = onSpeakingEnd
           /\ onError' = onError ]_vars

\* C5: the remote audio never plays while the local engine speaks, and the
\* local engine never holds utterances of two different speak() calls.
C5_OneUtteranceActive ==
    /\ ~(/\ audioElement.st = "playing" /\ audioElement.src \in Calls
         /\ synthSpeaking /\ synthQueue # <<>> /\ Head(synthQueue).call \in Calls)
    /\ Cardinality({synthQueue[i].call : i \in DOMAIN synthQueue} \cap Calls) <= 1

\* C6: no synthesis request exists unless audio is unlocked, and a call made
\* with the remote provider configured while locked issues none and is on the
\* local path instead.
C6_NoRemoteWhileLocked ==
    /\ (requests > 0 \/ path = "remote" \/ \E c \in Calls : fetches[c] # "none")
           => audioUnlocked
    /\ path = "locked"
           => /\ requests = 0 /\ fetches[watched] = "none"
              /\ promise[watched] = "pending" => LocalAttemptPending(watched)

C6_Witness ==
    /\ path = "locked" /\ ~audioUnlocked
    /\ ttsProvider = "openai" /\ openaiApiKey # ""
    /\ LocalAttemptPending(watched)

\* C7: after a remote failure the call is served by the local engine with the
\* same sanitized text: every local attempt carries the text of its call, a
\* failed call still pending has a local attempt under way, and its promise
\* is rejected only if the local engine itself reported an error.
C7_RemoteFailureFallsBack ==
    /\ \A i \in DOMAIN startTimers :
           startTimers[i].text = callText[startTimers[i].call]
    /\ \A i \in DOMAIN synthQueue :
           synthQueue[i].call \in Calls
               => synthQueue[i].text = callText[synthQueue[i].call]
    /\ \A c \in Calls : promise[c] = "pending" => callText[c] # <<>>
    /\ (fallbacks > 0 /\ promise[watched] = "pending")
           => LocalAttemptPending(watched)
    /\ promise[watched] = "rejected" => hardError

C7_Witness ==
    /\ path = "remote" /\ fallbacks > 0 /\ ~cancelled /\ ~hardError
    /\ promise[watched] = "resolved"

\* C8: one speak() call issues at most one synthesis request and makes at
\* most one local fallback attempt.
C8_AtMostOneFallback == requests <= 1 /\ fallbacks <= 1

\* C9: when the remote attempt of a call failed once and the local engine
\* spoke the text, the caller saw at most one onSpeakingStart, at most one
\* onSpeakingEnd and no onError for that call.
C9_FallbackInvisible ==
    (fallbacks = 1 /\ ~hardError)
        => onSpeakingStart <= 1 /\ onSpeakingEnd <= 1 /\ onError = 0

\* C10: a call that was not cancelled and whose local attempt met an engine
\* error other than interrupted/canceled, or found no local voice, ends with
\* its promise rejected and onError invoked.
C10_LocalFailureSurfaces ==
    (Quiescent /\ ~cancelled /\ (hardError \/ noVoice))
        => promise[watched] = "rejected" /\ onError >= 1

\* C11: for one speak() invocation no onSpeakingEnd is delivered before the
\* onSpeakingStart of that invocation: as long as no start was observed, no
\* end was observed either.
C11_StartBeforeEnd == onSpeakingStart = 0 => onSpeakingEnd = 0

\* C12: in continuous mode, in a turn whose transcript was delivered and whose
\* reply was then handed to speak(), the notifications arrive in the order
\* onListeningEnd, onSpeakingStart, onSpeakingEnd, onListeningStart: what was
\* logged is always a prefix of that order, and once the reply is settled and
\* nothing is pending the whole order was observed.
C12_TurnOrder ==
    (turn.open /\ continuousMode /\ nCalls > 0 /\ callText[1] # <<>>)
        => /\ turn.log = SubSeq(TurnOrder, 1, Len(turn.log))
           /\ (promise[1] # "pending" /\ Quiescent) => turn.log = TurnOrder

\* C13: the step that handles an 'aborted' recognition error invokes
\* onListeningEnd and nothing else, in particular not onError.
C13_AbortedIsSilent ==
    delivered.event = "aborted" => delivered.callbacks = << "onListeningEnd" >>

C13_Witness ==
    /\ delivered.event = "aborted" /\ recognition = "closing" /\ ~isListening

\* C14: the sanitizer is idempotent: sanitizing the sanitized text gives the
\* sanitized text.
C14_SanitizerIdempotent == sanitizer.passes = 2 => sanitizer.twice = sanitizer.once

\* C15: the text of the link scenario is sanitized to exactly "visit now".
C15_LinkScenario ==
    (sanitizer.input = ScenarioText /\ sanitizer.passes >= 1)
        => sanitizer.once = << "v", "i", "s", "i", "t", " ", "n", "o", "w" >>

\* C16: after every configuration the stored speed is the configured speed
\* brought into [0.25, 4.0], a configured 0.25 is stored as 0.25, and a
\* synthesis request carries the speed so obtained from the last configuration
\* that preceded it.
C16_SpeedClamped ==
    [][ LET want(speed) == IF speed < MinSpeed THEN MinSpeed
                           ELSE IF speed > MaxSpeed THEN MaxSpeed ELSE speed
        IN  /\ openaiSpeed' \in MinSpeed..MaxSpeed
            /\ openaiSpeed' = want(configuredSpeed')
            /\ configuredSpeed' = MinSpeed => openaiSpeed' = MinSpeed
            /\ requests' > requests => requestSpeed' = want(configuredSpeed) ]_vars

C16_Witness ==
    /\ requests = 1 /\ requestSpeed = MinSpeed /\ configuredSpeed = MinSpeed
    /\ fetches[watched] = "inflight"

\* C17: a speak() whose sanitized text is empty resolves at once and changes
\* nothing else: the flags, the speech playing or queued, the pending audio
\* resource, the timers and the other promises stay as they are, no callback
\* is invoked and no request is issued.
C17_EmptyTextNoEffect ==
    [][ (nCalls' = nCalls + 1 /\ callText'[nCalls'] = <<>>)
        => /\ promise'[nCalls'] = "resolved"
           /\ \A c \in Calls \ {nCalls'} : promise'[c] = promise[c]
           /\ delivered'.callbacks = <<>>
           /\ UNCHANGED << isListening, isSpeaking, recognition, audioElement,
                           listeners, synthQueue, synthSpeaking, utterEvents,
                           fetches, blobUrls, pendingAudioUrl, startTimers,
                           restartTimers, relistenTimers, current, cancelled,
                           requests, onSpeakingStart, onSpeakingEnd, onError >>
      ]_vars

C17_Witness ==
    /\ nCalls = 2 /\ callText[2] = <<>> /\ promise[2] = "resolved"
    /\ promise[1] = "pending" /\ isSpeaking /\ delivered.callbacks = <<>>

\* C18: the audio-unlock flag is false as long as unlockAudio() was never
\* called, true from the return of the first call on, whatever became of the
\* priming playback, and no step resets it.
C18_UnlockFlag ==
    /\ [](audioUnlocked <=> nUnlocks > 0)
    /\ [][audioUnlocked => audioUnlocked']_vars

\* unlockAudio() was called and the priming playback was refused
C18_Witness ==
    /\ nUnlocks = 1 /\ audioUnlocked
    /\ audioElement = [src |-> 0, st |-> "idle"]

\* C19: a startListening() made after the engine was asked to start and before
\* its start event invokes no callback and leaves the engine as it is.
C19_NoSecondStart ==
    [][ (delivered'.event = "startListening" /\ recognition = "starting")
        => (delivered'.callbacks = <<>> /\ recognition' = recognition) ]_vars

\* C20: without a recognition engine the listening flag is never set, and
\* every startListening() invokes onError once and nothing else, and leaves
\* the controller and the speech output as they are.
C20_NoEngineSignalled ==
    /\ [](recognition = "null" => ~isListening)
    /\ [][ (delivered'.event = "startListening" /\ recognition = "null")
           => /\ delivered'.callbacks = << "onError" >>
              /\ UNCHANGED << isListening, isSpeaking, continuousMode,
                              recognition, audioElement, listeners, synthQueue,
                              synthSpeaking, utterEvents, fetches, blobUrls,
                              pendingAudioUrl, startTimers, restartTimers,
                              relistenTimers, ttsProvider, openaiApiKey,
                              audioUnlocked, nCalls, current, promise >> ]_vars

\* startListening() without an engine, while a reply is being spoken
C20_Witness ==
    /\ recognition = "null" /\ delivered.event = "startListening"
    /\ delivered.callbacks = << "onError" >>
    /\ isSpeaking /\ synthSpeaking /\ promise[1] = "pending"

\* C21: a stopListening() invokes no callback and leaves the listening flag
\* as it is; when not listening it changes nothing of the controller, when
\* listening it changes at most the engine, which is asked to stop. The flag
\* falls only in the handler of the engine's end or error event.
C21_StopOnlyRequested ==
    /\ [][ delivered'.event = "stopListening"
           => /\ isListening' = isListening
              /\ delivered'.callbacks = <<>>
              /\ ~isListening => recognition' = recognition
              /\ recognition' \in {recognition, "stopping"}
              /\ UNCHANGED << isSpeaking, continuousMode, audioElement,
                              listeners, synthQueue, synthSpeaking,
                              utterEvents, fetches, blobUrls, pendingAudioUrl,
                              startTimers, restartTimers, relistenTimers,
                              nCalls, current, promise >> ]_vars
    /\ [][ (isListening /\ ~isListening')
           => \/ delivered'.event \in RecognitionErrors
              \/ /\ delivered'.callbacks = << "onListeningEnd" >>
                 /\ recognition \in {"stopping", "closing", "active"}
                 /\ recognition' = "idle" ]_vars

\* stopListening() while listening: the engine stops, the flag is still set
C21_Witness ==
    /\ delivered.event = "stopListening"
    /\ isListening /\ recognition = "stopping"

C23_HistoryBounded ==
    agent.last \in ReplyPaths
        => /\ Len(agent.conversationHistory) <= HistoryLimit
           /\ agent.conversationHistory[1] = "system"

\* C24: on the remote path onSpeakingStart is not invoked while the synthesis
\* request of the call is still in flight, when no audio of it can have begun.
C24_StartOnlyOncePlaying ==
    (path = "remote" /\ fetches[watched] = "inflight" /\ fallbacks = 0)
        => onSpeakingStart = 0

\* C25: in the step that calls play() on the audio of a remote response,
\* the speaking flag is set and the recognition engine is neither started nor
\* being started.
C25_PlayWhileSpeaking ==
    [][ ( /\ fetches[watched] = "inflight" /\ fetches'[watched] = "done"
          /\ audioElement' = [src |-> watched, st |-> "loading"] )
        => /\ isSpeaking /\ isSpeaking'
           /\ recognition \notin {"starting", "active"} ]_vars

\* C26: a restart timer that fires while speaking does nothing: the engine
\* is left as it is and no callback is invoked; and a restart timer is
\* scheduled only by the end of listening, in continuous mode and while not
\* speaking.
C26_RestartRechecksSpeaking ==
    /\ [][ (delivered'.event = "restartTimer" /\ isSpeaking)
           => /\ recognition' = recognition /\ isListening' = isListening
              /\ delivered'.callbacks = <<>> ]_vars
    /\ [][ restartTimers' > restartTimers
           => /\ continuousMode' /\ ~isSpeaking'
              /\ delivered'.callbacks = << "onListeningEnd" >> ]_vars

\* speaking started after listening ended, and the restart timer has fired
C26_Witness ==
    /\ delivered = [event |-> "restartTimer", callbacks |-> <<>>]
    /\ isSpeaking /\ recognition = "idle" /\ ~isListening
    /\ promise[1] = "pending"

\* C27: a re-listen timer that fires while a reply is being spoken does not
\* ask the recognition engine to start.
C27_RelistenRechecksSpeaking ==
    [][ (relistenTimers' = relistenTimers - 1 /\ isSpeaking)
        => recognition' = recognition ]_vars

\* C28: once stopSpeaking() has cancelled the only speak() made so far, no
\* audio of that call sounds and the speaking flag is false, as long as no
\* new speak() is made.
C28_StopIsTotal ==
    (nCalls = 1 /\ watched = 1 /\ cancelled)
        => /\ ~isSpeaking
           /\ AudibleCalls \cap Calls = {}

\* C29: the handling of an 'interrupted' or 'canceled' error of the local
\* engine clears the speaking flag, invokes onSpeakingEnd and nothing else,
\* and resolves the promise of the call if it was pending.
C29_CancelEndsNormally ==
    [][ (utterEvents # <<>> /\ utterEvents' = Tail(utterEvents))
        => LET c == Head(utterEvents).call
           IN  /\ Head(utterEvents).error \in {"interrupted", "canceled"}
               /\ ~isSpeaking'
               /\ delivered'.callbacks = << "onSpeakingEnd" >>
               /\ promise'[c] # "pending"
               /\ promise[c] = "pending" => promise'[c] = "resolved"
               /\ onError' = onError ]_vars

\* the utterance of the first call was interrupted by the second speak(); its
\* error event is handled while the second utterance is being spoken: the
\* flag is cleared, onSpeakingEnd was invoked and the first promise resolved
C29_Witness ==
    /\ watched = 1 /\ nCalls = 2 /\ ~audioUnlocked /\ cancelled
    /\ onSpeakingStart = 1 /\ onSpeakingEnd = 1 /\ onError = 0
    /\ promise = << "resolved", "pending" >>
    /\ synthSpeaking /\ Head(synthQueue).call = 2 /\ utterEvents = <<>>
    /\ delivered.callbacks = << "onSpeakingEnd" >>
    /\ ~isSpeaking

\* C30: a stall timer is live only while its utterance is: queued or being
\* spoken, or cancelled with its error event still to be handled. (The engine's
\* own failures are left aside.)
C30_StallTimersCleared ==
    ( /\ \/ \E i \in DOMAIN stallTimers.interval :
                stallTimers.interval[i] = watched
         \/ \E i \in DOMAIN stallTimers.timeout :
                stallTimers.timeout[i] = watched
      /\ ~hardError )
    => \/ \E i \in DOMAIN synthQueue : synthQueue[i].call = watched
       \/ \E i \in DOMAIN utterEvents : utterEvents[i].call = watched

\* C31: as long as the utterance of a call is queued or being spoken, its
\* paused-check is armed.
C31_CheckStaysArmed ==
    (\E i \in DOMAIN synthQueue : synthQueue[i].call = watched)
        => \E i \in DOMAIN stallTimers.interval :
              stallTimers.interval[i] = watched

\* C32: the voice returned is the one named by the stored preference if the
\* catalog holds it; else a voice of the higher-quality names if the catalog
\* holds one; else a voice of the configured language if there is one; else
\* the first voice; and none only for the empty catalog.
C32_VoicePrecedence ==
    voicePick.done =>
        LET voices == voicePick.catalog
            Named(n) == \E i \in DOMAIN voices : voices[i].name = n
            Quality(v) ==
                \E part \in QualityNames \cup
                             (IF voicePick.ios THEN IosNames ELSE {}) :
                    Includes(v.name, part)
            picked == CHOOSE i \in DOMAIN voices :
                         voices[i].name = voicePick.result
        IN  IF voices = <<>> THEN voicePick.result = "null"
            ELSE /\ Named(voicePick.result)
                 /\ IF voicePick.preferred # "" /\ Named(voicePick.preferred)
                    THEN voicePick.result = voicePick.preferred
                    ELSE IF \E i \in DOMAIN voices : Quality(voices[i])
                    THEN Quality(voices[picked])
                    ELSE IF \E i \in DOMAIN voices : StartsWithEn(voices[i].lang)
                    THEN StartsWithEn(voices[picked].lang)
                    ELSE voicePick.result = voices[1].name

\* C33: a step issues a synthesis request only if the provider is the remote
\* one and a non-empty key is stored, the request of the watched call carries
\* the stored key, and no step issues a request under the local provider.
C33_RequestNeedsProviderAndKey ==
    [][ /\ \A c \in Calls :
              (fetches[c] # "inflight" /\ fetches'[c] = "inflight")
                  => ttsProvider = "openai" /\ openaiApiKey # ""
        /\ requests' > requests
              => requestKey' = openaiApiKey /\ requestKey' # ""
        /\ ttsProvider = "browser"
              => requests' = requests /\ requestKey' = requestKey ]_vars

C33_Witness ==
    /\ requests = 1 /\ requestKey = "sk-key" /\ fetches[watched] = "inflight"
    /\ ttsProvider = "openai" /\ openaiApiKey = "sk-key"

\* C34: a step that delivers a no-speech error of the engine, or a transcript
\* that is empty or blank, leaves the application idle, never in 'error', and
\* arms no error timer.
C34_NoSpeechIsNotAnError ==
    [][ delivered'.event \in {"no-speech", "empty-transcript"}
            => /\ app'.state = "idle"
               /\ app'.errorTimer = app.errorTimer ]_vars

C34_Witness ==
    /\ delivered = [event |-> "no-speech", callbacks |-> << "onError" >>]
    /\ app.attached /\ app.agent /\ app.state = "idle" /\ ~app.errorTimer
    /\ recognition = "closing"

C34_WitnessBlank ==
    /\ delivered = [event |-> "empty-transcript",
                    callbacks |-> << "onSpeechResult" >>]
    /\ app.attached /\ app.agent /\ app.state = "idle" /\ app.thinking = 0

\* C35: the step in which the audio or the utterance of the watched call
\* reaches its natural end delivers onSpeakingEnd exactly once and schedules at
\* most one re-listen timer.
C35_OneEndPerNaturalEnd ==
    [][ (\/ /\ delivered'.event = "audioEnded"
            /\ audioElement.st = "playing" /\ audioElement.src = watched
         \/ /\ delivered'.event = "utteranceEnd"
            /\ synthQueue # <<>> /\ Head(synthQueue).call = watched)
        => /\ Len(SelectSeq(delivered'.callbacks,
                            LAMBDA cb : cb = "onSpeakingEnd")) = 1
           /\ relistenTimers' <= relistenTimers + 1 ]_vars

\* C36: a capture activation that ends with an engine error followed by the
\* engine's end event, with a result, or silently, notifies onListeningEnd
\* once: the end event that closes an activation whose error event already
\* delivered onListeningEnd delivers no second one, and every end event that
\* closes any other activation delivers exactly one.
C36_OneListeningEndPerActivation ==
    [][ (recognition \in {"active", "stopping", "closing"}
            /\ recognition' = "idle")
        => IF delivered.event = "aborted" /\ recognition = "closing"
           THEN delivered'.callbacks = <<>>
           ELSE delivered'.callbacks = << "onListeningEnd" >> ]_vars

\* C37: an unlockAudio() called while the controller speaks leaves the
\* speaking flag, the audio that is playing and the promises as they are, and
\* delivers no onSpeakingEnd and schedules no re-listen timer.
C37_UnlockLeavesSessionAlone ==
    [][ (delivered'.event = "unlockAudio" /\ nUnlocks' = nUnlocks + 1
            /\ isSpeaking)
        => /\ isSpeaking'
           /\ promise' = promise
           /\ audioElement.st = "playing" => audioElement' = audioElement
           /\ delivered'.callbacks = <<>>
           /\ relistenTimers' = relistenTimers ]_vars

\* C38: at most one object URL of a remote response is unreleased at any
\* time, and every unreleased object URL is the pending one: the controller
\* releases object URLs through pendingAudioUrl only, so that an unreleased URL
\* the field no longer holds is never released.
C38_AtMostOneBlobUrl ==
    /\ Cardinality(blobUrls) <= 1
    /\ blobUrls \subseteq {pendingAudioUrl}

\* C39: while continuous mode is off, a restart timer or a re-listen timer
\* that was scheduled earlier and fires now leaves the recognition engine as
\* it is.
C39_NoStartAfterModeOff ==
    [][ (/\ ~continuousMode
         /\ \/ restartTimers' < restartTimers
            \/ relistenTimers' < relistenTimers)
        => recognition' = recognition ]_vars

\* nothing is pending that could still call the application: no request to
\* the agent, no timer, no synthesis request, no audio, no utterance, no
\* capture activation
AppAtRest ==
    /\ app.thinking = 0 /\ ~app.errorTimer
    /\ recognition \in {"idle", "null"}
    /\ restartTimers = 0 /\ relistenTimers = 0 /\ startTimers = <<>>
    /\ \A c \in Calls : fetches[c] # "inflight"
    /\ audioElement.st \notin {"loading", "playing"}
    /\ synthQueue = <<>>

\* C40: the application does not stay in 'processing' or 'speaking': once
\* nothing is pending that could still call it, it is in neither state (a tap
\* in these states is ignored, so that a state at rest would last forever).
C40_NeverStuck == AppAtRest => app.state \notin {"processing", "speaking"}

====
